---- MODULE Spec2Model ----
(***************************************************************************)
(* Model of the template rule `i18n` of eslint-plugin-template            *)
(* (packages/eslint-plugin-template/src/rules/i18n.ts).                    *)
(*                                                                         *)
(* Text is modelled as a sequence of one-character strings, so that        *)
(* length, endsWith, startsWith, substr and concatenation are computed.    *)
(* A loosely typed JavaScript value is the record [type, str, num]: only   *)
(* the field named by `type` is meaningful, the others hold <<>> and 0.    *)
(***************************************************************************)
EXTENDS Integers, Sequences, FiniteSets, TLC

(***************************************************************************)
(* Bounds of the exploration.                                              *)
(***************************************************************************)
\* longest attribute value built from Alphabet
MaxLen == 3
\* longest attribute list of a node drawn from CoreAttribs
MaxAttrs == 2
\* how many names all rule instantiations together may push
MaxPushed == 1
\* largest start offset of a node in the source text
MaxOffset == 1

(***************************************************************************)
(* Text helpers.                                                           *)
(***************************************************************************)
Digits == <<"0", "1", "2", "3", "4", "5", "6", "7", "8", "9">>

HexDigits == Digits \o <<"a", "b", "c", "d", "e", "f">>

RECURSIVE IndexIn(_, _, _)
\* 1-based position of character c in the sequence tab at or after i, 0 when absent
IndexIn(c, tab, i) ==
  IF i > Len(tab) THEN 0
  ELSE IF tab[i] = c THEN i
  ELSE IndexIn(c, tab, i + 1)

IsDigit(c) == IndexIn(c, Digits, 1) > 0

IsHexDigit(c) == IndexIn(c, HexDigits, 1) > 0

AllDigits(s) == \A i \in 1..Len(s) : IsDigit(s[i])

\* String.prototype.startsWith
startsWith(s, prefix) ==
  /\ Len(s) >= Len(prefix)
  /\ SubSeq(s, 1, Len(prefix)) = prefix

\* String.prototype.endsWith
endsWith(s, suffix) ==
  /\ Len(s) >= Len(suffix)
  /\ SubSeq(s, Len(s) - Len(suffix) + 1, Len(s)) = suffix

\* String.prototype.substr(start, length), start counted from 0
substr(s, start, length) == SubSeq(s, start + 1, start + length)

\* Array.prototype.includes
includes(arr, x) == \E i \in 1..Len(arr) : arr[i] = x

(***************************************************************************)
(* Number(text): the StringToNumber conversion of ECMAScript.  A number is *)
(* [kind, neg, int, frac]: kind is "NaN", "Infinity" or "finite"; a finite *)
(* number is (-1)^neg * (int + 0.frac), frac being the fractional decimal  *)
(* digits without trailing zeros.  Exponent parts and the 0b and 0o        *)
(* prefixes need characters that are outside every value explored here.    *)
(***************************************************************************)
NaN == [kind |-> "NaN", neg |-> FALSE, int |-> 0, frac |-> <<>>]

Infinity(neg) == [kind |-> "Infinity", neg |-> neg, int |-> 0, frac |-> <<>>]

Finite(neg, int, frac) == [kind |-> "finite", neg |-> neg, int |-> int, frac |-> frac]

INFINITY_TEXT == <<"I", "n", "f", "i", "n", "i", "t", "y">>

NAN_TEXT == <<"N", "a", "N">>

IsWhiteSpace(c) == c \in {" ", "\t", "\n"}

RECURSIVE TrimStart(_)
TrimStart(s) ==
  IF s # <<>> /\ IsWhiteSpace(Head(s)) THEN TrimStart(Tail(s)) ELSE s

RECURSIVE TrimEnd(_)
TrimEnd(s) ==
  IF s # <<>> /\ IsWhiteSpace(s[Len(s)]) THEN TrimEnd(SubSeq(s, 1, Len(s) - 1)) ELSE s

Trim(s) == TrimEnd(TrimStart(s))

RECURSIVE DigitsValue(_, _, _)
\* value of the digit sequence s in the given base, acc being the value so far
DigitsValue(s, base, acc) ==
  IF s = <<>> THEN acc
  ELSE DigitsValue(Tail(s), base, acc * base + (IndexIn(Head(s), HexDigits, 1) - 1))

RECURSIVE StripTrailingZeros(_)
StripTrailingZeros(s) ==
  IF s # <<>> /\ s[Len(s)] = "0" THEN StripTrailingZeros(SubSeq(s, 1, Len(s) - 1)) ELSE s

\* StrUnsignedDecimalLiteral without exponent: Infinity, ddd, ddd., ddd.ddd, .ddd
ParseUnsignedDecimal(s, neg) ==
  LET dot == IndexIn(".", s, 1)
      ip == IF dot = 0 THEN s ELSE SubSeq(s, 1, dot - 1)
      fp == IF dot = 0 THEN <<>> ELSE SubSeq(s, dot + 1, Len(s))
  IN  IF s = INFINITY_TEXT THEN Infinity(neg)
      ELSE IF ~AllDigits(ip) \/ ~AllDigits(fp) THEN NaN
      ELSE IF ip = <<>> /\ fp = <<>> THEN NaN
      ELSE Finite(neg, DigitsValue(ip, 10, 0), StripTrailingZeros(fp))

\* StringToNumber: blank text is +0, 0x... is a hexadecimal integer without
\* sign, everything else is an optionally signed decimal literal
StringToNumber(text) ==
  LET s == Trim(text)
  IN  IF s = <<>> THEN Finite(FALSE, 0, <<>>)
      ELSE IF Len(s) >= 2 /\ s[1] = "0" /\ s[2] \in {"x", "X"}
        THEN IF Len(s) >= 3 /\ \A i \in 3..Len(s) : IsHexDigit(s[i])
               THEN Finite(FALSE, DigitsValue(SubSeq(s, 3, Len(s)), 16, 0), <<>>)
               ELSE NaN
      ELSE IF s[1] \in {"+", "-"} THEN ParseUnsignedDecimal(Tail(s), s[1] = "-")
      ELSE ParseUnsignedDecimal(s, FALSE)

RECURSIVE NatToString(_)
NatToString(n) ==
  IF n < 10 THEN <<Digits[n + 1]>>
  ELSE NatToString(n \div 10) \o <<Digits[(n % 10) + 1]>>

\* String(number): Number::toString.  Both zeros print as "0"; the values
\* explored lie between 1e-6 and 1e21, where no exponent is printed.
NumberToString(n) ==
  IF n.kind = "NaN" THEN NAN_TEXT
  ELSE IF n.kind = "Infinity"
    THEN (IF n.neg THEN <<"-">> ELSE <<>>) \o INFINITY_TEXT
  ELSE IF n.int = 0 /\ n.frac = <<>> THEN <<"0">>
  ELSE (IF n.neg THEN <<"-">> ELSE <<>>)
         \o NatToString(n.int)
         \o (IF n.frac = <<>> THEN <<>> ELSE <<".">> \o n.frac)

PX == <<"p", "x">>

\* isSizeOrNumber without the removal of a trailing "px"
isSizeOrNumber_keepsPx(value) ==
  NumberToString(StringToNumber(value)) = value

\* isSizeOrNumber(value)
isSizeOrNumber(value) ==
  LET temp == IF endsWith(value, PX) THEN substr(value, 0, Len(value) - 2) ELSE value
  IN  NumberToString(StringToNumber(temp)) = temp

(***************************************************************************)
(* JavaScript values and the coercions the rule applies to them.           *)
(***************************************************************************)
Undefined == [type |-> "undefined", str |-> <<>>, num |-> 0]

Null == [type |-> "null", str |-> <<>>, num |-> 0]

\* an object other than null, such as a bound expression
Obj == [type |-> "object", str |-> <<>>, num |-> 0]

Str(s) == [type |-> "string", str |-> s, num |-> 0]

Num(n) == [type |-> "number", str |-> <<>>, num |-> n]

Bool(b) == [type |-> "boolean", str |-> <<>>, num |-> IF b THEN 1 ELSE 0]

\* typeof v
typeof(v) == IF v.type = "null" THEN "object" ELSE v.type

\* ToBoolean(v), the test applied by `if (v)`, `!v` and `v && ...`
ToBoolean(v) ==
  CASE v.type = "undefined" -> FALSE
    [] v.type = "null" -> FALSE
    [] v.type = "object" -> TRUE
    [] v.type = "string" -> v.str # <<>>
    [] v.type = "number" -> v.num # 0
    [] v.type = "boolean" -> v.num = 1

(***************************************************************************)
(* Module constants.                                                       *)
(***************************************************************************)
TEXT_TYPE_NAMES == <<"Text", "BoundText", "Icu">>

ATTRIB_I18N == <<"i", "1", "8", "n">>

\* the array literal DEFAULT_IGNORE_ATTRIBUTES is initialised with
BuiltInIgnoreAttributes == <<
  <<"c", "l", "a", "s", "s">>,
  <<"s", "t", "y", "l", "e">>,
  <<"c", "o", "l", "o", "r">>,
  <<"s", "v", "g", "I", "c", "o", "n">>,
  <<"h", "r", "e", "f">>,
  <<"s", "r", "c">>,
  <<"i", "d">>,
  <<"l", "a", "n", "g">>,
  <<"c", "h", "a", "r", "s", "e", "t">>,
  <<"h", "e", "i", "g", "h", "t">>,
  <<"w", "i", "d", "t", "h">>,
  <<"t", "a", "r", "g", "e", "t">>,
  <<"t", "y", "p", "e">>,
  <<"c", "o", "l", "s", "p", "a", "n">>,
  <<"u", "i", "S", "r", "e", "f">>,
  <<"u", "i", "S", "r", "e", "f", "A", "c", "t", "i", "v", "e">>,
  <<"u", "i", "-", "v", "i", "e", "w">>,
  <<"x", "m", "l", "n", "s">>,
  <<"s", "t", "r", "o", "k", "e", "-", "w", "i", "d", "t", "h">>,
  <<"s", "t", "r", "o", "k", "e">>,
  <<"f", "i", "l", "l">>,
  <<"v", "i", "e", "w", "B", "o", "x">>,
  <<"t", "a", "b", "i", "n", "d", "e", "x">>,
  <<"f", "o", "r", "m", "C", "o", "n", "t", "r", "o", "l", "N", "a", "m", "e">> >>

NoIgnoreAttributes == [defined |-> FALSE, items |-> <<>>]

IgnoreAttributes(items) == [defined |-> TRUE, items |-> items]

defaultOptions ==
  [checkId |-> TRUE, checkText |-> TRUE, checkAttributes |-> TRUE,
   ignoreAttributes |-> IgnoreAttributes(<< <<>> >>)]

(***************************************************************************)
(* Template nodes as the parser hands them to the rule.                    *)
(***************************************************************************)
\* no i18n metadata on the node or attribute
NoI18n == [present |-> FALSE, customId |-> <<>>]

\* i18n metadata; customId is "" when the marker has no @@id
I18n(customId) == [present |-> TRUE, customId |-> customId]

Attrib(name, value, i18n) == [name |-> name, value |-> value, i18n |-> i18n]

NoChildren == [defined |-> FALSE, items |-> <<>>]

Children(items) == [defined |-> TRUE, items |-> items]

\* a child node: its type and the types of its own children
Child(type, grandchildren) == [type |-> type, children |-> grandchildren]

ElementNode(name, attributes, children, i18n, start) ==
  [type |-> "Element", name |-> name, tagName |-> Undefined,
   attributes |-> attributes, children |-> children, i18n |-> i18n,
   sourceSpan |-> [start |-> start]]

TemplateNode(tagName, attributes, children, i18n, start) ==
  [type |-> "Template", name |-> Undefined, tagName |-> tagName,
   attributes |-> attributes, children |-> children, i18n |-> i18n,
   sourceSpan |-> [start |-> start]]

(***************************************************************************)
(* Collaborators: span to location, location to character offset.  The     *)
(* template is taken to be one line of text.                               *)
(***************************************************************************)
convertNodeSourceSpanToLoc(sourceSpan) ==
  [start |-> [line |-> 1, column |-> sourceSpan.start]]

getIndexFromLoc(position) == position.column

(***************************************************************************)
(* Diagnostics.                                                            *)
(***************************************************************************)
NoFix == [kind |-> "none", range |-> <<0, 0>>, text |-> <<>>]

\* a fix function that returns null: no edit
NullFix == [kind |-> "null", range |-> <<0, 0>>, text |-> <<>>]

\* fixer.replaceTextRange(range, text)
replaceTextRange(range, text) ==
  [kind |-> "replaceTextRange", range |-> range, text |-> text]

NoData == [present |-> FALSE, attribName |-> <<>>]

Data(attribName) == [present |-> TRUE, attribName |-> attribName]

Report(messageId, loc, data, fix, suggest) ==
  [messageId |-> messageId, loc |-> loc, data |-> data, fix |-> fix,
   suggest |-> suggest]

Suggestion(messageId, data, fix) ==
  [messageId |-> messageId, data |-> data, fix |-> fix]

(***************************************************************************)
(* checkNode(node, name), split at its statements.                         *)
(***************************************************************************)
\* insertIndex: startIndex + 1, plus name.length when name is truthy
insertIndexOf(startIndex, name) ==
  IF ~ToBoolean(name) THEN startIndex + 1 ELSE startIndex + 1 + Len(name.str)

\* what the name test writes to the console
consoleOutput(node, name) ==
  IF ~ToBoolean(name) THEN <<node>> ELSE <<>>

\* the condition without the lookup in the ignore array
needsI18nAttrib_noLookup(attrib, checkAttributes, allIgnoredAttribs) ==
  /\ checkAttributes
  /\ ToBoolean(attrib.value)
  /\ typeof(attrib.value) = "string"
  /\ Len(attrib.value.str) > 0
  /\ attrib.value.str # <<"t", "r", "u", "e">>
  /\ attrib.value.str # <<"f", "a", "l", "s", "e">>
  /\ ~isSizeOrNumber(attrib.value.str)
  /\ ~startsWith(attrib.name, <<":", "x", "m", "l">>)

\* the condition applying the text tests to texts only, so that a truthy
\* value of another type is reported
needsI18nAttrib_failOpen(attrib, checkAttributes, allIgnoredAttribs) ==
  /\ checkAttributes
  /\ ToBoolean(attrib.value)
  /\ \/ typeof(attrib.value) # "string"
     \/ /\ Len(attrib.value.str) > 0
        /\ attrib.value.str # <<"t", "r", "u", "e">>
        /\ attrib.value.str # <<"f", "a", "l", "s", "e">>
        /\ ~isSizeOrNumber(attrib.value.str)
  /\ ~startsWith(attrib.name, <<":", "x", "m", "l">>)
  /\ ~includes(allIgnoredAttribs, attrib.name)

\* the condition guarding the i18nAttrib report
needsI18nAttrib(attrib, checkAttributes, allIgnoredAttribs) ==
  /\ checkAttributes
  /\ ToBoolean(attrib.value)
  /\ typeof(attrib.value) = "string"
  /\ Len(attrib.value.str) > 0
  /\ attrib.value.str # <<"t", "r", "u", "e">>
  /\ attrib.value.str # <<"f", "a", "l", "s", "e">>
  /\ ~isSizeOrNumber(attrib.value.str)
  /\ ~startsWith(attrib.name, <<":", "x", "m", "l">>)
  /\ ~includes(allIgnoredAttribs, attrib.name)

\* the body with the identifier check made to depend on checkAttributes too
checkAttrib_idNeedsCheckAttributes(attrib, loc, insertIndex, opts, allIgnoredAttribs) ==
  IF attrib.i18n.present
    THEN IF opts.checkId /\ opts.checkAttributes /\ attrib.i18n.customId = <<>>
           THEN <<Report("i18nIdOnAttrib", loc, Data(attrib.name), NoFix, <<>>)>>
           ELSE <<>>
    ELSE IF needsI18nAttrib(attrib, opts.checkAttributes, allIgnoredAttribs)
           THEN <<Report("i18nAttrib", loc, Data(attrib.name),
                    replaceTextRange(<<insertIndex, insertIndex>>,
                                     <<" ">> \o ATTRIB_I18N \o <<"-">> \o attrib.name),
                    <<Suggestion("i18nSuggestIgnore", Data(attrib.name), NullFix)>>)>>
           ELSE <<>>

\* the body of node.attributes.forEach for one attribute
checkAttrib(attrib, loc, insertIndex, opts, allIgnoredAttribs) ==
  IF attrib.i18n.present
    THEN IF opts.checkId /\ attrib.i18n.customId = <<>>
           THEN <<Report("i18nIdOnAttrib", loc, Data(attrib.name), NoFix, <<>>)>>
           ELSE <<>>
    ELSE IF needsI18nAttrib(attrib, opts.checkAttributes, allIgnoredAttribs)
           THEN <<Report("i18nAttrib", loc, Data(attrib.name),
                    replaceTextRange(<<insertIndex, insertIndex>>,
                                     <<" ">> \o ATTRIB_I18N \o <<"-">> \o attrib.name),
                    <<Suggestion("i18nSuggestIgnore", Data(attrib.name), NullFix)>>)>>
           ELSE <<>>

RECURSIVE checkAttributesOf(_, _, _, _, _)
\* node.attributes.forEach(...): the reports in attribute order
checkAttributesOf(attributes, loc, insertIndex, opts, allIgnoredAttribs) ==
  IF attributes = <<>> THEN <<>>
  ELSE checkAttrib(Head(attributes), loc, insertIndex, opts, allIgnoredAttribs)
         \o checkAttributesOf(Tail(attributes), loc, insertIndex, opts, allIgnoredAttribs)

\* the child test looking into the children's own children as well
hasTextChild_deep(children) ==
  /\ children.defined
  /\ \E i \in 1..Len(children.items) :
       \/ includes(TEXT_TYPE_NAMES, children.items[i].type)
       \/ \E k \in 1..Len(children.items[i].children) :
            includes(TEXT_TYPE_NAMES, children.items[i].children[k])

\* node.children && node.children.some(child => TEXT_TYPE_NAMES.includes(child.type))
hasTextChild(children) ==
  /\ children.defined
  /\ \E i \in 1..Len(children.items) : includes(TEXT_TYPE_NAMES, children.items[i].type)

\* the statement with the custom id test inverted
checkElement_invertedId(node, loc, insertIndex, opts) ==
  IF node.i18n.present
    THEN IF opts.checkId /\ node.i18n.customId # <<>>
           THEN <<Report("i18nId", loc, NoData, NoFix, <<>>)>>
           ELSE <<>>
    ELSE IF opts.checkText /\ hasTextChild(node.children)
           THEN <<Report("i18nText", loc, NoData,
                    replaceTextRange(<<insertIndex, insertIndex>>, <<" ">> \o ATTRIB_I18N),
                    <<>>)>>
           ELSE <<>>

\* the statement with the text check outside the else branch
checkElement_textAlways(node, loc, insertIndex, opts) ==
  (IF node.i18n.present /\ opts.checkId /\ node.i18n.customId = <<>>
     THEN <<Report("i18nId", loc, NoData, NoFix, <<>>)>>
     ELSE <<>>)
  \o (IF opts.checkText /\ hasTextChild(node.children)
        THEN <<Report("i18nText", loc, NoData,
                 replaceTextRange(<<insertIndex, insertIndex>>, <<" ">> \o ATTRIB_I18N),
                 <<>>)>>
        ELSE <<>>)

\* the statement `if (node.i18n) ... else ...` that ends checkNode
checkElement(node, loc, insertIndex, opts) ==
  IF node.i18n.present
    THEN IF opts.checkId /\ node.i18n.customId = <<>>
           THEN <<Report("i18nId", loc, NoData, NoFix, <<>>)>>
           ELSE <<>>
    ELSE IF opts.checkText /\ hasTextChild(node.children)
           THEN <<Report("i18nText", loc, NoData,
                    replaceTextRange(<<insertIndex, insertIndex>>, <<" ">> \o ATTRIB_I18N),
                    <<>>)>>
           ELSE <<>>

\* checkNode(node, name): what it reports and what it writes to the console
checkNode(node, name, opts, allIgnoredAttribs) ==
  LET loc == convertNodeSourceSpanToLoc(node.sourceSpan)
      startIndex == getIndexFromLoc(loc.start)
      insertIndex == insertIndexOf(startIndex, name)
  IN  [console |-> consoleOutput(node, name),
       reports |-> checkAttributesOf(node.attributes, loc, insertIndex, opts, allIgnoredAttribs)
                     \o checkElement(node, loc, insertIndex, opts)]

(***************************************************************************)
(* The inputs explored.                                                    *)
(***************************************************************************)
TITLE == <<"t", "i", "t", "l", "e">>

ALT == <<"a", "l", "t">>

XML_SPACE == <<":", "x", "m", "l", ":", "s", "p", "a", "c", "e">>

CLASS == <<"c", "l", "a", "s", "s">>

HELLO == <<"H", "e", "l", "l", "o">>

TRUE_TEXT == <<"t", "r", "u", "e">>

FALSE_TEXT == <<"f", "a", "l", "s", "e">>

DIV == <<"d", "i", "v">>

ToSet(seq) == {seq[i] : i \in 1..Len(seq)}

\* attribute names: the built-in ones and three others
AttribNames == ToSet(BuiltInIgnoreAttributes) \cup {TITLE, ALT, XML_SPACE}

Alphabet == {"0", "1", ".", "-", "p", "x", " ", "N", "a"}

RECURSIVE Texts(_)
\* the texts over Alphabet of length at most n
Texts(n) ==
  IF n = 0 THEN {<<>>}
  ELSE LET shorter == Texts(n - 1)
       IN  shorter \cup {Append(t, c) : t \in {u \in shorter : Len(u) = n - 1}, c \in Alphabet}

\* attribute values of every type the condition distinguishes
CoreValues ==
  {Undefined, Null, Obj, Num(0), Num(5), Bool(TRUE), Bool(FALSE)}
    \cup {Str(t) : t \in {<<>>, TRUE_TEXT, FALSE_TEXT, HELLO, <<"5">>, <<"5", "p", "x">>,
                          <<"0", "5">>, PX, INFINITY_TEXT, <<"T", "r", "u", "e">>}}

Markers == {NoI18n, I18n(<<>>), I18n(<<"i", "d">>)}

\* the attributes that make up the longer attribute lists
CoreAttribs ==
  {Attrib(TITLE, Str(HELLO), NoI18n), Attrib(TITLE, Str(HELLO), I18n(<<>>)),
   Attrib(ALT, Str(HELLO), I18n(<<"i", "d">>)), Attrib(CLASS, Str(HELLO), NoI18n),
   Attrib(ALT, Str(<<"5", "p", "x">>), NoI18n)}

RECURSIVE AttribLists(_)
\* the lists over CoreAttribs of length at most n
AttribLists(n) ==
  IF n = 0 THEN {<<>>}
  ELSE LET shorter == AttribLists(n - 1)
       IN  shorter \cup {Append(l, a) : l \in {m \in shorter : Len(m) = n - 1}, a \in CoreAttribs}

\* one attribute: any value under four names, any name with two values, or
\* an attribute with a marker
SingleAttribs ==
  {Attrib(n, v, NoI18n) : n \in {TITLE, ALT, CLASS, XML_SPACE}, v \in CoreValues}
    \cup {Attrib(n, v, NoI18n) : n \in AttribNames, v \in {Str(HELLO), Str(PX)}}
    \cup {Attrib(n, Str(HELLO), m) : n \in {TITLE, CLASS}, m \in Markers \ {NoI18n}}

ChildrenChoices ==
  {NoChildren, Children(<<>>),
   Children(<<Child("Text", <<>>)>>), Children(<<Child("BoundText", <<>>)>>),
   Children(<<Child("Icu", <<>>)>>), Children(<<Child("Element", <<>>)>>),
   Children(<<Child("Element", <<"Text">>)>>)}

\* tag names of Template nodes: none, empty, or a tag
TagNames == {Null, Str(<<>>), Str(<<"p">>)}

Offsets == 0..MaxOffset

\* nodes that vary what the element inspection reads
ElementCases ==
  LET attributes == {<<>>, <<Attrib(TITLE, Str(HELLO), NoI18n)>>}
  IN  {ElementNode(Str(DIV), a, c, m, o) :
         a \in attributes, c \in ChildrenChoices, m \in Markers, o \in Offsets}
      \cup {TemplateNode(t, a, c, m, o) :
         t \in TagNames, a \in attributes, c \in ChildrenChoices, m \in Markers, o \in Offsets}

\* nodes that vary what the attribute inspection reads
AttributeCases ==
  LET attributes == {<<a>> : a \in SingleAttribs} \cup AttribLists(MaxAttrs)
      text == Children(<<Child("Text", <<>>)>>)
  IN  {ElementNode(Str(DIV), a, text, I18n(<<>>), 0) : a \in attributes}
      \cup {TemplateNode(Null, a, text, NoI18n, 0) : a \in attributes}

Nodes == ElementCases \cup AttributeCases

\* nodes with one unmarked attribute whose value is any text over Alphabet
ValueCases ==
  LET attributes == {<<Attrib(n, Str(t), NoI18n)>> : n \in {TITLE, CLASS}, t \in Texts(MaxLen)}
  IN  {ElementNode(Str(DIV), a, Children(<<>>), NoI18n, 0) : a \in attributes}
      \cup {TemplateNode(Str(<<"p">>), a, Children(<<>>), NoI18n, 0) : a \in attributes}

\* the ignoreAttributes option: omitted, the default [''], or ['title']
IgnoreChoices ==
  {NoIgnoreAttributes, IgnoreAttributes(<< <<>> >>), IgnoreAttributes(<<TITLE>>)}

OptionChoices ==
  [checkId : BOOLEAN, checkText : BOOLEAN, checkAttributes : BOOLEAN,
   ignoreAttributes : IgnoreChoices]

(***************************************************************************)
(* State.                                                                  *)
(***************************************************************************)
VARIABLES
  DEFAULT_IGNORE_ATTRIBUTES,  \* the module-level array
  options,                    \* the options of the latest rule instantiation
  node,                       \* the template node the parser produced
  reports,                    \* context.report calls of the latest checkNode
  console,                    \* console.log calls of the latest checkNode
  pc,                         \* "loaded", "created" (visitor returned), "checked"
  fixed                       \* the i18nText fix has been applied to node

vars == <<DEFAULT_IGNORE_ATTRIBUTES, options, node, reports, console, pc, fixed>>

\* `const allIgnoredAttribs: string[] = DEFAULT_IGNORE_ATTRIBUTES` is the same array
allIgnoredAttribs == DEFAULT_IGNORE_ATTRIBUTES

Init ==
  /\ DEFAULT_IGNORE_ATTRIBUTES = BuiltInIgnoreAttributes
  /\ options = defaultOptions
  /\ node \in Nodes
  /\ reports = <<>>
  /\ console = <<>>
  /\ pc = "loaded"
  /\ fixed = FALSE

\* the array after `if (ignoreAttributes) allIgnoredAttribs.push(...ignoreAttributes)`
pushIgnoreAttributes(array, ignoreAttributes) ==
  IF ignoreAttributes.defined THEN array \o ignoreAttributes.items ELSE array

\* create(context, [options]): one rule instantiation
create(opts) ==
  /\ Len(pushIgnoreAttributes(DEFAULT_IGNORE_ATTRIBUTES, opts.ignoreAttributes))
       <= Len(BuiltInIgnoreAttributes) + MaxPushed
  /\ DEFAULT_IGNORE_ATTRIBUTES' =
       pushIgnoreAttributes(DEFAULT_IGNORE_ATTRIBUTES, opts.ignoreAttributes)
  /\ options' = opts
  /\ reports' = <<>>
  /\ console' = <<>>
  /\ pc' = "created"
  /\ UNCHANGED <<node, fixed>>

\* the visitor's Element(node): checkNode(node, node.name)
Element ==
  /\ pc = "created"
  /\ node.type = "Element"
  /\ LET result == checkNode(node, node.name, options, allIgnoredAttribs)
     IN  /\ reports' = result.reports
         /\ console' = result.console
  /\ pc' = "checked"
  /\ UNCHANGED <<DEFAULT_IGNORE_ATTRIBUTES, options, node, fixed>>

\* the visitor's Template(node): checkNode(node, node.tagName)
Template ==
  /\ pc = "created"
  /\ node.type = "Template"
  /\ LET result == checkNode(node, node.tagName, options, allIgnoredAttribs)
     IN  /\ reports' = result.reports
         /\ console' = result.console
  /\ pc' = "checked"
  /\ UNCHANGED <<DEFAULT_IGNORE_ATTRIBUTES, options, node, fixed>>

\* the host applies the fix of an i18nText report: the text " i18n" is
\* inserted after the tag name and the node parsed again carries a marker
\* without custom id
ApplyFix ==
  /\ pc = "checked"
  /\ \E i \in 1..Len(reports) :
       /\ reports[i].messageId = "i18nText"
       /\ reports[i].fix.kind = "replaceTextRange"
  /\ node' = [node EXCEPT !.i18n = I18n(<<>>)]
  /\ fixed' = TRUE
  /\ reports' = <<>>
  /\ console' = <<>>
  /\ pc' = "loaded"
  /\ UNCHANGED <<DEFAULT_IGNORE_ATTRIBUTES, options>>

Next ==
  \/ \E opts \in OptionChoices : create(opts)
  \/ Element
  \/ Template
  \/ ApplyFix

Spec == Init /\ [][Next]_vars

\* the value checks alone: a rule instantiated with the default options
\* visits a node of ValueCases
InitValues ==
  /\ DEFAULT_IGNORE_ATTRIBUTES = pushIgnoreAttributes(BuiltInIgnoreAttributes,
                                                      defaultOptions.ignoreAttributes)
  /\ options \in {o \in OptionChoices : o.ignoreAttributes = defaultOptions.ignoreAttributes
                                        /\ o.checkId /\ o.checkText}
  /\ node \in ValueCases
  /\ reports = <<>>
  /\ console = <<>>
  /\ pc = "created"
  /\ fixed = FALSE

NextValues ==
  \/ Element
  \/ Template

SpecValues == InitValues /\ [][NextValues]_vars
(***************************************************************************)
(* Properties.                                                             *)
(***************************************************************************)
\* the reports with this message that carry the attribute name n
AttribReports(messageId, n) ==
  {i \in DOMAIN reports : reports[i].messageId = messageId /\ reports[i].data = Data(n)}

NodeReports(messageId) ==
  {i \in DOMAIN reports : reports[i].messageId = messageId}

\* the attributes of the node named n that satisfy P
AttribsNamed(n, P(_)) ==
  {j \in DOMAIN node.attributes : node.attributes[j].name = n /\ P(node.attributes[j])}

AttribNamesOfNode == {node.attributes[j].name : j \in DOMAIN node.attributes}

\* the name checkNode was called with
NameOfNode == IF node.type = "Element" THEN node.name ELSE node.tagName

\* the length of the tag name, an absent name counting as the empty text
NameLength == IF typeof(NameOfNode) = "string" THEN Len(NameOfNode.str) ELSE 0

\* the ignore set of the specification: built-in names and the names this
\* instantiation supplied
OwnIgnoreSet == ToSet(BuiltInIgnoreAttributes) \cup ToSet(options.ignoreAttributes.items)

Instantiated == pc \in {"created", "checked"}

Checked == pc = "checked"

\* numeric in the sense of the specification: without a trailing "px", the
\* text parsed as a number and printed again is the text itself
IsNumberOrSize(text) ==
  LET stripped == IF Len(text) >= 2 /\ text[Len(text) - 1] = "p" /\ text[Len(text)] = "x"
                    THEN SubSeq(text, 1, Len(text) - 2)
                    ELSE text
  IN  NumberToString(StringToNumber(stripped)) = stripped

\* C1: the ignore set every instantiation uses is exactly the built-in list
\* united with the instantiation's own ignoreAttributes
C1_IgnoreSetIsBuiltInPlusOwn ==
  Instantiated => ToSet(allIgnoredAttribs) = OwnIgnoreSet

\* C2: no i18nAttrib report names an attribute of the built-in ignore list
C2_BuiltInNeverReported ==
  \A i \in NodeReports("i18nAttrib") :
    ~(reports[i].data.attribName \in ToSet(BuiltInIgnoreAttributes))

C2_Witness ==
  /\ Checked
  /\ options.checkAttributes
  /\ Len(node.attributes) = 1
  /\ node.attributes[1] = Attrib(<<"v", "i", "e", "w", "B", "o", "x">>, Str(HELLO), NoI18n)
  /\ NodeReports("i18nAttrib") = {}

\* C3: under every name, i18nAttrib is reported at most as often as the node
\* has unmarked attributes of that name whose value is none of "", "true",
\* "false", a number or a number followed by "px"
C3_ExemptValueNeverReported ==
  Checked =>
    \A n \in AttribNamesOfNode :
      LET Reportable(a) ==
            /\ ~a.i18n.present
            /\ ~(/\ typeof(a.value) = "string"
                 /\ \/ a.value.str \in {<<>>, TRUE_TEXT, FALSE_TEXT}
                    \/ IsNumberOrSize(a.value.str))
      IN  Cardinality(AttribReports("i18nAttrib", n)) <= Cardinality(AttribsNamed(n, Reportable))

C3_Witness ==
  /\ Checked
  /\ options.checkAttributes
  /\ node.attributes = <<Attrib(TITLE, Str(<<"1", "p", "x">>), NoI18n)>>
  /\ ~includes(allIgnoredAttribs, TITLE)
  /\ reports = <<>>

\* C4: with checkId, under every name i18nIdOnAttrib is reported once for each
\* attribute of that name that has a marker without custom id, each time
\* with the name and without fix, and i18nAttrib at most once for each
\* attribute of that name without marker; checkAttributes plays no part
C4_OneIdReportPerMarkedAttrib ==
  Checked /\ options.checkId =>
    \A n \in AttribNamesOfNode :
      LET MarkedNoId(a) == a.i18n.present /\ a.i18n.customId = <<>>
          Unmarked(a) == ~a.i18n.present
      IN  /\ Cardinality(AttribReports("i18nIdOnAttrib", n))
               = Cardinality(AttribsNamed(n, MarkedNoId))
          /\ \A i \in AttribReports("i18nIdOnAttrib", n) :
               reports[i].fix = NoFix /\ reports[i].suggest = <<>>
          /\ Cardinality(AttribReports("i18nAttrib", n))
               <= Cardinality(AttribsNamed(n, Unmarked))

C4_Witness ==
  /\ Checked
  /\ options.checkId
  /\ ~options.checkAttributes
  /\ node.attributes = <<Attrib(TITLE, Str(HELLO), I18n(<<>>))>>
  /\ Cardinality(AttribReports("i18nIdOnAttrib", TITLE)) = 1
  /\ AttribReports("i18nAttrib", TITLE) = {}

\* C5: a node with a marker never gets i18nText, and with checkId and no
\* custom id it gets i18nId exactly once, without fix
C5_MarkedNode ==
  Checked /\ node.i18n.present =>
    /\ NodeReports("i18nText") = {}
    /\ options.checkId /\ node.i18n.customId = <<>> =>
         /\ Cardinality(NodeReports("i18nId")) = 1
         /\ \A i \in NodeReports("i18nId") : reports[i].fix = NoFix

C5_Witness ==
  /\ Checked
  /\ ~fixed
  /\ node.i18n = I18n(<<>>)
  /\ options.checkId
  /\ options.checkText
  /\ hasTextChild(node.children)
  /\ Cardinality(NodeReports("i18nId")) = 1

\* C6: with checkText, a node without marker gets i18nText once when a direct
\* child is Text, BoundText or Icu and not at all otherwise; the fix inserts
\* " i18n" at startOffset + 1 + length(name)
C6_TextReport ==
  Checked /\ ~node.i18n.present /\ options.checkText =>
    LET direct == /\ node.children.defined
                  /\ \E k \in DOMAIN node.children.items :
                       node.children.items[k].type \in {"Text", "BoundText", "Icu"}
        offset == node.sourceSpan.start + 1 + NameLength
    IN  /\ Cardinality(NodeReports("i18nText")) = IF direct THEN 1 ELSE 0
        /\ \A i \in NodeReports("i18nText") :
             reports[i].fix = [kind |-> "replaceTextRange", range |-> <<offset, offset>>,
                               text |-> <<" ", "i", "1", "8", "n">>]

C6_Witness ==
  /\ Checked
  /\ ~node.i18n.present
  /\ options.checkText
  /\ node.type = "Element"
  /\ node.sourceSpan.start = 1
  /\ node.children = Children(<<Child("Icu", <<>>)>>)
  /\ \E i \in NodeReports("i18nText") : reports[i].fix.range = <<5, 5>>

\* C7: once the i18nText fix has been applied to the node, checking the node
\* again reports no i18nText
C7_FixIsIdempotent ==
  Checked /\ fixed => NodeReports("i18nText") = {}

C7_Witness ==
  /\ Checked
  /\ fixed
  /\ options.checkText
  /\ hasTextChild(node.children)

\* C8: a node without tag name is checked with the empty name: nothing is
\* written to the console, fixes insert at startOffset + 1, and the reports
\* are those of the same node under a tag name, up to the fix offset
C8_AnonymousLikeNamed ==
  Checked /\ node.type = "Template" /\ ~ToBoolean(node.tagName) =>
    LET named == [node EXCEPT !.tagName = Str(<<"p">>)]
        expected == checkNode(named, named.tagName, options, allIgnoredAttribs).reports
        offset == node.sourceSpan.start + 1
    IN  /\ console = <<>>
        /\ Len(reports) = Len(expected)
        /\ \A i \in DOMAIN reports :
             /\ [reports[i] EXCEPT !.fix.range = <<0, 0>>]
                  = [expected[i] EXCEPT !.fix.range = <<0, 0>>]
             /\ reports[i].fix.kind = "replaceTextRange" =>
                  reports[i].fix.range = <<offset, offset>>

\* C9: with checkAttributes, an unmarked attribute whose value is present and
\* not a text, and whose name is neither ignored nor in the :xml namespace,
\* is reported with i18nAttrib
C9_NonTextValueReported ==
  Checked /\ options.checkAttributes =>
    \A j \in DOMAIN node.attributes :
      LET a == node.attributes[j]
      IN  /\ ~a.i18n.present
          /\ ~(typeof(a.value) \in {"string", "undefined"})
          /\ a.value # Null
          /\ ~(a.name \in ToSet(allIgnoredAttribs))
          /\ ~startsWith(a.name, <<":", "x", "m", "l">>)
          => AttribReports("i18nAttrib", a.name) # {}

\* C9 amended: an attribute whose value is not a text is exempt: under every
\* name, i18nAttrib is reported at most as often as the node has unmarked
\* attributes of that name whose value is a text
C9_NonTextValueExempt ==
  Checked =>
    \A n \in AttribNamesOfNode :
      LET UnmarkedText(a) == ~a.i18n.present /\ typeof(a.value) = "string"
      IN  Cardinality(AttribReports("i18nAttrib", n))
            <= Cardinality(AttribsNamed(n, UnmarkedText))

C9_Witness ==
  /\ Checked
  /\ options.checkAttributes
  /\ node.attributes = <<Attrib(TITLE, Obj, NoI18n)>>
  /\ ~includes(allIgnoredAttribs, TITLE)
  /\ AttribReports("i18nAttrib", TITLE) = {}

\* isExempt(name, value) of the specification, for the ignore set given
IsExempt(a, ignoreSet) ==
  \/ ~ToBoolean(a.value)
  \/ a.value.str \in {TRUE_TEXT, FALSE_TEXT}
  \/ IsNumberOrSize(a.value.str)
  \/ startsWith(a.name, <<":", "x", "m", "l">>)
  \/ a.name \in ignoreSet

\* the attributes of the data model: the value is a text or absent
TypedAttributes ==
  \A j \in DOMAIN node.attributes :
    typeof(node.attributes[j].value) = "string" \/ node.attributes[j].value = Undefined

\* the i18nAttrib reports are exactly the attributes that need one for the
\* ignore set given, each with its name, fix and suggestion
AttribReportsMatch(ignoreSet) ==
  \A n \in AttribNamesOfNode :
    LET Needs(a) == options.checkAttributes /\ ~a.i18n.present /\ ~IsExempt(a, ignoreSet)
        offset == node.sourceSpan.start + 1 + NameLength
    IN  /\ Cardinality(AttribReports("i18nAttrib", n)) = Cardinality(AttribsNamed(n, Needs))
        /\ \A i \in AttribReports("i18nAttrib", n) :
             /\ reports[i].fix = [kind |-> "replaceTextRange", range |-> <<offset, offset>>,
                                  text |-> <<" ", "i", "1", "8", "n", "-">> \o n]
             /\ reports[i].suggest =
                  <<[messageId |-> "i18nSuggestIgnore", data |-> Data(n), fix |-> NullFix]>>

\* C10: i18nAttrib is reported for an attribute exactly when checkAttributes
\* is on, the attribute has no marker and isExempt(name, value) is false for
\* the ignore set of the instantiation; once, with the name, the fix
\* inserting " i18n-<name>" at the insertion offset, and one suggestion
\* without edit
C10_AttribReportedIffNotExempt ==
  Checked /\ TypedAttributes => AttribReportsMatch(OwnIgnoreSet)

\* the same reports match the array the code looks names up in
AttribReportsMatchArray ==
  Checked /\ TypedAttributes => AttribReportsMatch(ToSet(allIgnoredAttribs))
====
